---- MODULE Spec2Model ----
(***************************************************************************)
(* A model of src/Zapujcky.py: the JSON-backed record store (JSONManager), *)
(* the loan variants and their factory (LoanFactory), the interval         *)
(* conflict check (check_for_conflict) and the loan workflow               *)
(* (process_loan).                                                         *)
(*                                                                         *)
(* Identifiers and names are strings.  A timestamp string is parsed by     *)
(* strptime into minutes since midnight of 2026-11-28, or fails with       *)
(* ValueError.  The backing file holds the JSON text of the store: its     *)
(* strings are escaped as json.dump escapes them.                          *)
(***************************************************************************)
EXTENDS Integers, Sequences, FiniteSets, TLC

VARIABLES
    data,   \* JSONManager.data: the three in-memory collections
    file,   \* the content of the backing file JSONManager.filename
    uuid,   \* how many identifiers uuid.uuid4() has produced
    ret,    \* what the last call returned, or the exception it raised
    out,    \* the lines the last call printed
    th      \* per concurrent caller: where it is in process_loan, its locals

vars == <<data, file, uuid, ret, out, th>>

----------------------------------------------------------------------------
(* Bounds of the model *)

\* no call is made once the loans collection holds this many records
MaxLoans == 2
\* no record is made once uuid.uuid4() has produced this many identifiers
MaxUuid == 3

----------------------------------------------------------------------------
(* The inputs the callers draw from *)

\* an argument left out of a call (Python's None default)
None == "<None>"

\* the item identifiers a caller passes to process_loan
ItemIds == {"item-1", "item-2"}
\* the items and users that are added to the store: "item-2" is never added
\* (as user_b of the test driver)
AddedItemIds == {"item-1"}
AddedUserIds == {"user-a"}
ItemNames == {"Python kucharka"}
InventoryNumbers == {"B101"}
UserNames == {"Jiri Ryska"}

\* timestamp strings a caller passes: three well-formed ones, one that
\* strptime also accepts (a one-digit minute), one it rejects
TimeStrings ==
    { "2026-11-28 10:00", "2026-11-28 12:00", "2026-11-28 12:0",
      "2026-11-28 14:00", "28.11.2026 10:00" }

\* the timestamp strings of the candidates the conflict check is probed
\* with: the ones above and the other times of the test driver
ProbeTimeStrings == TimeStrings \cup {"2026-11-28 11:30", "2026-11-28 13:00"}

\* variant tags a caller passes
LoanTypes == {"standard", "staff", "vip"}

\* keyword arguments a caller passes: none, or a note
KwargsSet == { {}, {<<"note", "Pro \"interni\" skoleni.">>} }

----------------------------------------------------------------------------
(* datetime.strptime(s, '%Y-%m-%d %H:%M') *)

Parsed(minutes) == [ok |-> TRUE, t |-> minutes]
ValueError == [ok |-> FALSE, t |-> 0]
\* strptime() argument 1 must be str
TypeError == [ok |-> FALSE, t |-> 0, str |-> FALSE]

\* %H and %M accept one or two digits, so "12:0" is 12:00; a string in
\* another layout raises ValueError, a value that is no string TypeError
strptime(s) ==
    CASE s = None -> TypeError
      [] s = "2026-11-28 10:00" -> Parsed(10 * 60 + 0)
      [] s = "2026-11-28 11:30" -> Parsed(11 * 60 + 30)
      [] s = "2026-11-28 12:00" -> Parsed(12 * 60 + 0)
      [] s = "2026-11-28 12:0"  -> Parsed(12 * 60 + 0)
      [] s = "2026-11-28 13:00" -> Parsed(13 * 60 + 0)
      [] s = "2026-11-28 14:00" -> Parsed(14 * 60 + 0)
      [] OTHER -> ValueError

----------------------------------------------------------------------------
(* Records *)

\* str(uuid.uuid4()) when n identifiers were produced before
Uuid4(n) == "uuid-" \o ToString(n + 1)

\* Item.__init__ and Item.to_dict
Item(name, inventory_number, item_id, n) ==
    [ item_id |-> IF item_id # None THEN item_id ELSE Uuid4(n),
      name |-> name,
      inventory_number |-> inventory_number ]

\* User.__init__ and User.to_dict
User(name, user_id, n) ==
    [ user_id |-> IF user_id # None THEN user_id ELSE Uuid4(n),
      name |-> name ]

\* Loan.__init__ with Loan.to_dict, for StandardLoan
StandardLoan(item_id, user_id, start_time, end_time, n) ==
    [ loan_id |-> Uuid4(n),
      item_id |-> item_id,
      user_id |-> user_id,
      start_time |-> start_time,
      end_time |-> end_time,
      loan_type |-> "standard" ]

\* StaffLoan.__init__ with Loan.to_dict
StaffLoan(item_id, user_id, start_time, end_time, note, n) ==
    [ loan_id |-> Uuid4(n),
      item_id |-> item_id,
      user_id |-> user_id,
      start_time |-> start_time,
      end_time |-> end_time,
      note |-> note,
      loan_type |-> "staff" ]

DefaultNote == "Není uvedena"

\* kwargs.get(key, default) giving the default also when the key is there
KwGet_default(kwargs, key, default) == default

\* kwargs.get(key, default)
KwGet(kwargs, key, default) ==
    IF \E p \in kwargs : p[1] = key
    THEN (CHOOSE p \in kwargs : p[1] = key)[2]
    ELSE default

\* create_loan with an unknown type falling back to a standard loan
create_loan_default(loan_type, item_id, user_id, start_time, end_time, kwargs, n) ==
    IF loan_type = "staff"
    THEN [ok |-> TRUE,
          loan |-> StaffLoan(item_id, user_id, start_time, end_time,
                             KwGet(kwargs, "note", DefaultNote), n)]
    ELSE [ok |-> TRUE,
          loan |-> StandardLoan(item_id, user_id, start_time, end_time, n)]

\* LoanFactory.create_loan: the record of the new loan, or the ValueError
\* of an unknown type
create_loan(loan_type, item_id, user_id, start_time, end_time, kwargs, n) ==
    IF loan_type = "standard"
    THEN [ok |-> TRUE,
          loan |-> StandardLoan(item_id, user_id, start_time, end_time, n)]
    ELSE IF loan_type = "staff"
    THEN [ok |-> TRUE,
          loan |-> StaffLoan(item_id, user_id, start_time, end_time,
                             KwGet(kwargs, "note", DefaultNote), n)]
    ELSE [ok |-> FALSE]

----------------------------------------------------------------------------
(* The backing file *)

EmptyStore == [items |-> <<>>, users |-> <<>>, loans |-> <<>>]

\* no file; a text json.load rejects; bytes that are not UTF-8; the JSON
\* text of an array; the JSON text of an object
FileAbsent == [kind |-> "absent"]
FileCorrupt == [kind |-> "corrupt"]
FileNotUtf8 == [kind |-> "not_utf8"]
FileJsonArray == [kind |-> "array"]
FileJson(doc) == [kind |-> "json", doc |-> doc]

\* json.dump writes a string with its non-ASCII characters (ensure_ascii)
\* and its quotes escaped
JsonEscape(s) ==
    CASE s = "Není uvedena" -> "Nen\\u00ed uvedena"
      [] s = "Pro \"interni\" skoleni." -> "Pro \\\"interni\\\" skoleni."
      [] OTHER -> s

\* json.load reads the escapes back
JsonUnescape(s) ==
    CASE s = "Nen\\u00ed uvedena" -> "Není uvedena"
      [] s = "Pro \\\"interni\\\" skoleni." -> "Pro \"interni\" skoleni."
      [] OTHER -> s

\* the JSON text of a store: every collection, every record, every field
JsonDump(d) ==
    [ key \in DOMAIN d |->
        [ i \in 1..Len(d[key]) |->
            [ f \in DOMAIN d[key][i] |-> JsonEscape(d[key][i][f]) ] ] ]

JsonLoad(doc) ==
    [ key \in DOMAIN doc |->
        [ i \in 1..Len(doc[key]) |->
            [ f \in DOMAIN doc[key][i] |-> JsonUnescape(doc[key][i][f]) ] ] ]

\* dict.setdefault(key, [])
SetDefault(d, key) ==
    IF key \in DOMAIN d
    THEN d
    ELSE [ k \in DOMAIN d \cup {key} |-> IF k = key THEN <<>> ELSE d[k] ]

\* the exception _load_data leaves with: reading bytes that are not UTF-8
\* raises UnicodeDecodeError and setdefault on a list AttributeError, and
\* neither is FileNotFoundError or json.JSONDecodeError
LoadError(f) ==
    CASE f.kind = "not_utf8" -> "UnicodeDecodeError"
      [] f.kind = "array" -> "AttributeError"
      [] OTHER -> "None"

\* no JSONManager was made: its constructor raised
NoStore == [raised |-> TRUE]

\* JSONManager._load_data
LoadData(f) ==
    IF LoadError(f) # "None" THEN NoStore
    ELSE IF f.kind = "absent" THEN EmptyStore
    ELSE IF f.kind = "corrupt" THEN EmptyStore
    ELSE SetDefault(SetDefault(SetDefault(JsonLoad(f.doc), "items"), "users"), "loans")

\* how a write of the file can end: it completes; open() is refused and the
\* file stays as it was; the write breaks off after open() truncated the file
WriteOutcomes == {"ok", "open_fails", "write_fails"}

\* _save_data left out of add_data: the file stays as it was
SaveData_skip(f, d, wr) == f

\* JSONManager._save_data: the file afterwards
SaveData(f, d, wr) ==
    CASE wr = "ok" -> FileJson(JsonDump(d))
      [] wr = "open_fails" -> f
      [] wr = "write_fails" -> FileCorrupt

\* get_loans_for_item without its filter: the loans of every item
get_loans_for_item_all(d, item_id) == d.loans

\* JSONManager.get_loans_for_item
get_loans_for_item(d, item_id) ==
    SelectSeq(d.loans, LAMBDA loan : loan.item_id = item_id)

\* the record put in place of the collection instead of at its end
AppendData_replace(d, key, rec) == [d EXCEPT ![key] = <<rec>>]

\* the record put in front of the collection instead of at its end
AppendData_front(d, key, rec) == [d EXCEPT ![key] = <<rec>> \o @]

\* data[key].append(...) of JSONManager.add_data
AppendData(d, key, rec) == [d EXCEPT ![key] = Append(@, rec)]

----------------------------------------------------------------------------
(* The lines the program prints, without their diacritics and without the *)
(* values they interpolate *)

MsgAttempt == "--- Pokus o zapujcku pro Item ID ---"
MsgBadFormat == "Chyba: Neplatny format casu (ocekavano YYYY-MM-DD HH:MM)."
MsgBadOrder == "Chyba: Zacatek musi byt drive nez konec."
MsgConflict == "Konflikt nalezen s existujici zapujckou ID"
MsgNoConflict == "Konflikt nenalezen. Predmet je v danem intervalu volny."
MsgNotMade == "Zapujcka NEBYLA provedena kvuli konfliktu v kalendari."
MsgFactory == "Chyba Factory: Neznamy typ zapujcky"
MsgSaved == "Zapujcka uspesne ulozena."

----------------------------------------------------------------------------
(* check_for_conflict *)

\* the overlap condition true only of a candidate inside the existing loan
Overlap_inside(existing_start, existing_end, new_start, new_end) ==
    existing_start < new_start /\ new_end < existing_end

\* the overlap condition with closed intervals
Overlap_closed(existing_start, existing_end, new_start, new_end) ==
    existing_start <= new_end /\ new_start <= existing_end

\* the overlap condition looking only at where the candidate starts
Overlap_startOnly(existing_start, existing_end, new_start, new_end) ==
    existing_start <= new_start /\ new_start < existing_end

\* the overlap condition of two parsed intervals
Overlap(existing_start, existing_end, new_start, new_end) ==
    existing_start < new_end /\ new_start < existing_end

\* the validation of the order letting an empty interval through
BadOrder_strict(new_start, new_end) == new_start > new_end

\* the validation of the candidate's order
BadOrder(new_start, new_end) == new_start >= new_end

\* the validation with a timestamp that does not parse let through
validate_lenient(new_start_str, new_end_str) ==
    LET new_start == strptime(new_start_str)
        new_end == strptime(new_end_str)
    IN  IF new_start.ok /\ new_end.ok /\ new_start.t >= new_end.t
        THEN <<MsgBadOrder>>
        ELSE <<>>

\* the validation with the two error lines exchanged
validate_swapped(new_start_str, new_end_str) ==
    LET new_start == strptime(new_start_str)
        new_end == strptime(new_end_str)
    IN  IF ~new_start.ok \/ ~new_end.ok
        THEN <<MsgBadOrder>>
        ELSE IF new_start.t >= new_end.t
        THEN <<MsgBadFormat>>
        ELSE <<>>

\* the validation of the candidate: the line it prints when it rejects,
\* nothing when the candidate is valid
validate(new_start_str, new_end_str) ==
    LET new_start == strptime(new_start_str)
        new_end == strptime(new_end_str)
    IN  IF ~new_start.ok \/ ~new_end.ok
        THEN <<MsgBadFormat>>
        ELSE IF BadOrder(new_start.t, new_end.t)
        THEN <<MsgBadOrder>>
        ELSE <<>>

\* whether a stored loan takes part in the overlap test: both its times parse
Parseable(loan_data) ==
    strptime(loan_data.start_time).ok /\ strptime(loan_data.end_time).ok

\* the loop leaving at a loan whose times do not parse (break for continue)
RECURSIVE OverlapLoop_break(_, _, _)
OverlapLoop_break(existing_loans, new_start, new_end) ==
    IF existing_loans = <<>>
    THEN FALSE
    ELSE LET loan_data == Head(existing_loans)
         IN  IF ~Parseable(loan_data)
             THEN FALSE
             ELSE IF Overlap(strptime(loan_data.start_time).t,
                             strptime(loan_data.end_time).t, new_start, new_end)
             THEN TRUE
             ELSE OverlapLoop_break(Tail(existing_loans), new_start, new_end)

\* the loop looking at the newest loan of the item only
OverlapLoop_lastOnly(existing_loans, new_start, new_end) ==
    /\ existing_loans # <<>>
    /\ Parseable(existing_loans[Len(existing_loans)])
    /\ Overlap(strptime(existing_loans[Len(existing_loans)].start_time).t,
               strptime(existing_loans[Len(existing_loans)].end_time).t,
               new_start, new_end)

\* the loop over the existing loans: TRUE at the first loan that overlaps,
\* a loan whose times do not parse is passed over
RECURSIVE OverlapLoop(_, _, _)
OverlapLoop(existing_loans, new_start, new_end) ==
    IF existing_loans = <<>>
    THEN FALSE
    ELSE LET loan_data == Head(existing_loans)
         IN  IF ~Parseable(loan_data)
             THEN OverlapLoop(Tail(existing_loans), new_start, new_end)
             ELSE IF Overlap(strptime(loan_data.start_time).t,
                             strptime(loan_data.end_time).t, new_start, new_end)
             THEN TRUE
             ELSE OverlapLoop(Tail(existing_loans), new_start, new_end)

\* whether the loop leaves with the TypeError of strptime, which its
\* except ValueError does not catch: it comes to a loan whose start_time is
\* no string, or whose start_time parses and whose end_time is no string,
\* before it comes to a loan that overlaps
RECURSIVE LoopRaises(_, _, _)
LoopRaises(existing_loans, new_start, new_end) ==
    IF existing_loans = <<>>
    THEN FALSE
    ELSE LET loan_data == Head(existing_loans)
             existing_start == strptime(loan_data.start_time)
             existing_end == strptime(loan_data.end_time)
         IN  IF existing_start = TypeError
             THEN TRUE
             ELSE IF ~existing_start.ok
             THEN LoopRaises(Tail(existing_loans), new_start, new_end)
             ELSE IF existing_end = TypeError
             THEN TRUE
             ELSE IF ~existing_end.ok
             THEN LoopRaises(Tail(existing_loans), new_start, new_end)
             ELSE IF Overlap(existing_start.t, existing_end.t, new_start, new_end)
             THEN FALSE
             ELSE LoopRaises(Tail(existing_loans), new_start, new_end)

\* the overlap detection over the loans fetched for the item: what
\* check_for_conflict returns and prints for a valid candidate, or the
\* exception it leaves with (it then returns nothing: ret has no meaning)
evaluate(existing_loans, new_start_str, new_end_str) ==
    IF LoopRaises(existing_loans, strptime(new_start_str).t, strptime(new_end_str).t)
    THEN [ret |-> FALSE, out |-> <<>>, exc |-> "TypeError"]
    ELSE IF OverlapLoop(existing_loans, strptime(new_start_str).t,
                        strptime(new_end_str).t)
    THEN [ret |-> TRUE, out |-> <<MsgConflict>>, exc |-> "None"]
    ELSE [ret |-> FALSE, out |-> <<MsgNoConflict>>, exc |-> "None"]

\* check_for_conflict reporting a conflict for an item that is not in the
\* items of the store
check_for_conflict_known(item_id, new_start_str, new_end_str, d) ==
    IF validate(new_start_str, new_end_str) # <<>>
    THEN [ret |-> TRUE, out |-> validate(new_start_str, new_end_str), exc |-> "None"]
    ELSE IF \A i \in 1..Len(d.items) : d.items[i].item_id # item_id
    THEN [ret |-> TRUE, out |-> <<MsgConflict>>, exc |-> "None"]
    ELSE evaluate(get_loans_for_item(d, item_id), new_start_str, new_end_str)

\* check_for_conflict: what it returns and what it prints, or the exception
\* it leaves with
check_for_conflict(item_id, new_start_str, new_end_str, d) ==
    IF validate(new_start_str, new_end_str) # <<>>
    THEN [ret |-> TRUE, out |-> validate(new_start_str, new_end_str), exc |-> "None"]
    ELSE evaluate(get_loans_for_item(d, item_id), new_start_str, new_end_str)

----------------------------------------------------------------------------
(* The operations, one caller at a time *)

\* the concurrent callers, and a caller that is in no call
Threads == {"t1", "t2"}
Idle == [pc |-> "idle"]

\* JSONManager(): the store right after construction, over a file that is
\* absent or does not decode
Init ==
    /\ file \in {FileAbsent, FileCorrupt}
    /\ data = LoadData(file)
    /\ uuid = 0
    /\ ret = "None"
    /\ out = <<>>
    /\ th = [t \in Threads |-> Idle]

\* JSONManager.add_data(key, data_object) on the store d over the file f,
\* with the write ending as wr: the store and the file afterwards, and
\* what the call returns or raises
add_data(key, rec, wr, d, f) ==
    [ data |-> AppendData(d, key, rec),
      file |-> SaveData(f, AppendData(d, key, rec), wr),
      ret |-> IF wr = "ok" THEN "None" ELSE "OSError" ]

\* the identifiers of the items and of the users in the store
StoredItemIds == { data.items[i].item_id : i \in 1..Len(data.items) }
StoredUserIds == { data.users[i].user_id : i \in 1..Len(data.users) }

\* db.add_data("items", Item(...)) for an item that is not in the store yet
AddItem(wr) ==
    /\ \E name \in ItemNames, inv \in InventoryNumbers,
          id \in AddedItemIds \ StoredItemIds :
          LET r == add_data("items", Item(name, inv, id, uuid), wr, data, file)
          IN  /\ data' = r.data
              /\ file' = r.file
              /\ ret' = r.ret
    /\ out' = <<>>
    /\ UNCHANGED <<uuid, th>>

\* db.add_data("users", User(...)) for a user that is not in the store yet
AddUser(wr) ==
    /\ \E name \in UserNames, id \in AddedUserIds \ StoredUserIds :
          LET r == add_data("users", User(name, id, uuid), wr, data, file)
          IN  /\ data' = r.data
              /\ file' = r.file
              /\ ret' = r.ret
    /\ out' = <<>>
    /\ UNCHANGED <<uuid, th>>

\* db.add_data("loans", StandardLoan(...)): a loan put into the store
\* without process_loan
AddLoan(items, users, times, wr) ==
    /\ Len(data.loans) < MaxLoans
    /\ uuid < MaxUuid
    /\ \E item_id \in items, user_id \in users,
          start_time \in times, end_time \in times :
          LET r == add_data("loans",
                            StandardLoan(item_id, user_id, start_time, end_time, uuid),
                            wr, data, file)
          IN  /\ data' = r.data
              /\ file' = r.file
              /\ ret' = r.ret
    /\ uuid' = uuid + 1
    /\ out' = <<>>
    /\ UNCHANGED th

\* the program is started again: a new JSONManager over the same file
Restart ==
    /\ data' = LoadData(file)
    /\ ret' = LoadError(file)
    /\ out' = <<>>
    /\ UNCHANGED <<file, uuid, th>>

\* process_loan(loan_type, item_id, user_id, start_time, end_time, db, **kwargs)
\* on the store d over the file f, after n identifiers, with the write, when
\* there is one, ending as wr: what it returns or raises, the lines it
\* prints, and the store, the file and the identifiers afterwards
process_loan(loan_type, item_id, user_id, start_time, end_time, kwargs, wr, d, f, n) ==
    LET check == check_for_conflict(item_id, start_time, end_time, d)
        made == create_loan(loan_type, item_id, user_id, start_time, end_time,
                            kwargs, n)
        added == add_data("loans", made.loan, wr, d, f)
    IN  IF check.exc # "None"
        THEN [ ret |-> check.exc,
               out |-> <<MsgAttempt>>,
               data |-> d, file |-> f, uuid |-> n ]
        ELSE IF check.ret
        THEN [ ret |-> "False",
               out |-> <<MsgAttempt>> \o check.out \o <<MsgNotMade>>,
               data |-> d, file |-> f, uuid |-> n ]
        ELSE IF ~made.ok
        THEN [ ret |-> "False",
               out |-> <<MsgAttempt>> \o check.out \o <<MsgFactory>>,
               data |-> d, file |-> f, uuid |-> n ]
        ELSE IF added.ret = "None"
        THEN [ ret |-> "True",
               out |-> <<MsgAttempt>> \o check.out \o <<MsgSaved>>,
               data |-> added.data, file |-> added.file, uuid |-> n + 1 ]
        ELSE [ ret |-> added.ret,
               out |-> <<MsgAttempt>> \o check.out,
               data |-> added.data, file |-> added.file, uuid |-> n + 1 ]

\* a call of process_loan with its arguments drawn from the given sets, on
\* a store that holds fewer than cap loans
ProcessLoanIn(types, items, users, times, kwargsset, writes, cap) ==
    /\ Len(data.loans) < cap
    /\ uuid < MaxUuid
    /\ \E loan_type \in types, item_id \in items, user_id \in users,
          start_time \in times, end_time \in times, kwargs \in kwargsset,
          wr \in writes :
          LET r == process_loan(loan_type, item_id, user_id, start_time, end_time,
                                kwargs, wr, data, file, uuid)
          IN  /\ ret' = r.ret
              /\ out' = r.out
              /\ data' = r.data
              /\ file' = r.file
              /\ uuid' = r.uuid
    /\ UNCHANGED th

\* the user the calls of the sequential specifications name
CallerUserIds == {"user-a"}

\* a call of process_loan over a storage that works
ProcessLoan ==
    ProcessLoanIn(LoanTypes, ItemIds, CallerUserIds, TimeStrings, KwargsSet,
                  {"ok"}, MaxLoans)

\* calls of process_loan made one after the other on a store that started
\* empty, over a storage that works
Next == ProcessLoan

Spec == Init /\ [][Next]_vars

----------------------------------------------------------------------------
(* Loans that reach the store without process_loan *)

\* a loan added with add_data directly can hold any timestamps: ones that
\* do not parse, a start after the end, an interval that overlaps another
DirectTimeStrings == {"2026-11-28 10:00", "2026-11-28 14:00", "28.11.2026 10:00"}
AddLoanDirect == AddLoan(ItemIds, CallerUserIds, DirectTimeStrings, "ok")

\* calls of process_loan on the stores so made
StoreTimeStrings == {"2026-11-28 10:00", "2026-11-28 12:00", "2026-11-28 14:00"}
ProcessStandardLoan ==
    ProcessLoanIn({"standard"}, ItemIds, CallerUserIds, StoreTimeStrings, {{}},
                  {"ok"}, MaxLoans + 1)

NextStore ==
    \/ AddLoanDirect
    \/ ProcessStandardLoan

SpecStore == Init /\ [][NextStore]_vars

----------------------------------------------------------------------------
(* Loans with damaged times in the store *)

\* the times of the loans added directly: one that parses, one that is a
\* string in another layout, and one that is no string (null in the file)
CorruptTimeValues == {"2026-11-28 10:00", "2026-11-28 12:00", "28.11.2026 10:00", None}
AddLoanCorrupt == AddLoan({"item-1"}, CallerUserIds, CorruptTimeValues, "ok")

ProcessLoanCorrupt ==
    ProcessLoanIn({"standard"}, ItemIds, CallerUserIds, StoreTimeStrings, {{}},
                  {"ok"}, MaxLoans + 1)

NextCorrupt ==
    \/ AddLoanCorrupt
    \/ ProcessLoanCorrupt

SpecCorrupt == Init /\ [][NextCorrupt]_vars

----------------------------------------------------------------------------
(* A storage whose writes can fail, and restarts of the program *)

\* the timestamps of the calls over the failing storage
FaultTimeStrings == {"2026-11-28 10:00", "2026-11-28 12:0", "2026-11-28 14:00"}

ProcessLoanFaulty ==
    ProcessLoanIn(LoanTypes, {"item-1"}, CallerUserIds, FaultTimeStrings,
                  KwargsSet, WriteOutcomes, MaxLoans)

NextFault ==
    \/ \E wr \in WriteOutcomes : AddItem(wr)
    \/ \E wr \in WriteOutcomes : AddUser(wr)
    \/ ProcessLoanFaulty
    \/ Restart

SpecFault == Init /\ [][NextFault]_vars

----------------------------------------------------------------------------
(* Calls that name items and users the store may not hold *)

\* the users the calls name: "user-b" is never added to the store (user_b
\* of the test driver, passed to process_loan in its tests 2 and 4)
RefUserIds == {"user-a", "user-b"}
RefLoanTypes == {"standard", "vip"}
RefTimeStrings == {"2026-11-28 10:00", "2026-11-28 12:00", "2026-11-28 14:00"}

ProcessLoanRefs ==
    ProcessLoanIn(RefLoanTypes, ItemIds, RefUserIds, RefTimeStrings, {{}},
                  {"ok"}, MaxLoans)

NextRefs ==
    \/ AddItem("ok")
    \/ AddUser("ok")
    \/ ProcessLoanRefs

SpecRefs == Init /\ [][NextRefs]_vars

----------------------------------------------------------------------------
(* The program started over a file that is already there *)

\* records a file left by an earlier run holds
LoadedItem == Item("Python kucharka", "B101", "item-1", 0)
LoadedUser == User("Jiri Ryska", "user-a", 0)
LoadedLoan ==
    [ StaffLoan("item-1", "user-a", "2026-11-28 10:00", "2026-11-28 12:00",
                DefaultNote, 0) EXCEPT !.loan_id = "uuid-0" ]

\* the JSON documents of the files: all three collections, the loans only,
\* the items and the users only, no collection at all
StartDocs ==
    { JsonDump([items |-> <<LoadedItem>>, users |-> <<LoadedUser>>,
                loans |-> <<LoadedLoan>>]),
      JsonDump([loans |-> <<LoadedLoan>>]),
      JsonDump([items |-> <<LoadedItem>>, users |-> <<LoadedUser>>]),
      JsonDump(<<>>) }

StartFiles ==
    {FileAbsent, FileCorrupt, FileNotUtf8, FileJsonArray}
        \cup { FileJson(doc) : doc \in StartDocs }

\* JSONManager(): the store right after construction over any of the files
InitLoad ==
    /\ file \in StartFiles
    /\ data = LoadData(file)
    /\ uuid = 0
    /\ ret = LoadError(file)
    /\ out = <<>>
    /\ th = [t \in Threads |-> Idle]

LoadTimeStrings == {"2026-11-28 10:00", "2026-11-28 12:00", "2026-11-28 14:00"}

\* calls on the store, when the start made one
ProcessLoanLoaded ==
    /\ data # NoStore
    /\ ProcessLoanIn(LoanTypes, {"item-1"}, CallerUserIds, LoadTimeStrings,
                     KwargsSet, {"ok"}, MaxLoans)

NextLoad ==
    \/ ProcessLoanLoaded
    \/ Restart

SpecLoad == InitLoad /\ [][NextLoad]_vars

----------------------------------------------------------------------------
(* process_loan called by two threads: the steps of a call interleave *)

ConcLoanTypes == {"standard", "vip"}

\* the caller enters process_loan and check_for_conflict: it validates the
\* candidate and fetches the loans of the item
Fetch(t) ==
    /\ th[t].pc = "idle"
    /\ Len(data.loans) < MaxLoans
    /\ \E loan_type \in ConcLoanTypes, item_id \in ItemIds, user_id \in CallerUserIds,
          start_time \in TimeStrings, end_time \in TimeStrings :
          IF validate(start_time, end_time) # <<>>
          THEN /\ ret' = "False"
               /\ out' = <<MsgAttempt>> \o validate(start_time, end_time)
                            \o <<MsgNotMade>>
               /\ UNCHANGED th
          ELSE /\ th' = [th EXCEPT ![t] =
                           [ pc |-> "fetched",
                             loan_type |-> loan_type,
                             item_id |-> item_id,
                             user_id |-> user_id,
                             start_time |-> start_time,
                             end_time |-> end_time,
                             existing_loans |-> get_loans_for_item(data, item_id) ]]
               /\ UNCHANGED <<ret, out>>
    /\ UNCHANGED <<data, file, uuid>>

\* it runs the overlap detection over the loans it fetched and, when there
\* is no conflict, makes the loan object
Evaluate(t) ==
    /\ th[t].pc = "fetched"
    /\ uuid < MaxUuid
    /\ LET c == evaluate(th[t].existing_loans, th[t].start_time, th[t].end_time)
           made == create_loan(th[t].loan_type, th[t].item_id, th[t].user_id,
                               th[t].start_time, th[t].end_time, {}, uuid)
       IN  IF c.exc # "None"
           THEN /\ ret' = c.exc
                /\ out' = <<MsgAttempt>>
                /\ th' = [th EXCEPT ![t] = Idle]
                /\ UNCHANGED uuid
           ELSE IF c.ret
           THEN /\ ret' = "False"
                /\ out' = <<MsgAttempt>> \o c.out \o <<MsgNotMade>>
                /\ th' = [th EXCEPT ![t] = Idle]
                /\ UNCHANGED uuid
           ELSE IF ~made.ok
           THEN /\ ret' = "False"
                /\ out' = <<MsgAttempt>> \o c.out \o <<MsgFactory>>
                /\ th' = [th EXCEPT ![t] = Idle]
                /\ UNCHANGED uuid
           ELSE /\ th' = [th EXCEPT ![t] = [pc |-> "created", new_loan |-> made.loan]]
                /\ uuid' = uuid + 1
                /\ UNCHANGED <<ret, out>>
    /\ UNCHANGED <<data, file>>

\* add_data appends the record to the loans
AppendLoan(t) ==
    /\ th[t].pc = "created"
    /\ data' = AppendData(data, "loans", th[t].new_loan)
    /\ th' = [th EXCEPT ![t] = [pc |-> "appended"]]
    /\ UNCHANGED <<file, uuid, ret, out>>

\* add_data saves the store, and process_loan returns
Save(t) ==
    /\ th[t].pc = "appended"
    /\ file' = SaveData(file, data, "ok")
    /\ ret' = "True"
    /\ out' = <<MsgAttempt, MsgNoConflict, MsgSaved>>
    /\ th' = [th EXCEPT ![t] = Idle]
    /\ UNCHANGED <<data, uuid>>

NextConc ==
    \E t \in Threads : Fetch(t) \/ Evaluate(t) \/ AppendLoan(t) \/ Save(t)

SpecConc == Init /\ [][NextConc]_vars

----------------------------------------------------------------------------
(* What the claims speak of *)

\* the minutes of the half-open interval [start_time, end_time) of a loan
Minutes(loan) ==
    IF strptime(loan.start_time).ok /\ strptime(loan.end_time).ok
    THEN strptime(loan.start_time).t .. (strptime(loan.end_time).t - 1)
    ELSE {}

\* the loans of the store, by position
LoanIndexes == 1..Len(data.loans)

\* a candidate that parses, with its start before its end
ValidInterval(start_time, end_time) ==
    /\ strptime(start_time).ok
    /\ strptime(end_time).ok
    /\ strptime(start_time).t < strptime(end_time).t

\* some stored loan of the item with parseable times satisfies
\* existing_start < new_end and new_start < existing_end
ConflictExists(item_id, start_time, end_time) ==
    \E i \in LoanIndexes :
        /\ data.loans[i].item_id = item_id
        /\ strptime(data.loans[i].start_time).ok
        /\ strptime(data.loans[i].end_time).ok
        /\ strptime(data.loans[i].start_time).t < strptime(end_time).t
        /\ strptime(start_time).t < strptime(data.loans[i].end_time).t

\* the lines of a printed output
Lines(o) == { o[k] : k \in 1..Len(o) }

\* what a call of process_loan over a working storage does in this state
Outcome(loan_type, item_id, user_id, start_time, end_time, kwargs) ==
    process_loan(loan_type, item_id, user_id, start_time, end_time, kwargs,
                 "ok", data, file, uuid)

----------------------------------------------------------------------------
(* C1 *)

\* C1: any two distinct stored loans with the same item_id have
\* non-overlapping half-open intervals [start_time, end_time), after any
\* sequence of process_loan calls on a store that started with no loans
C1_NoOverlapPerItem ==
    \A i, j \in LoanIndexes :
        (i # j /\ data.loans[i].item_id = data.loans[j].item_id)
            => Minutes(data.loans[i]) \cap Minutes(data.loans[j]) = {}

\* two loans of one item are stored, the second by an accepted call
C1_Witness ==
    /\ ret = "True"
    /\ \E i, j \in LoanIndexes :
          i # j /\ data.loans[i].item_id = data.loans[j].item_id

----------------------------------------------------------------------------
(* C2 *)

\* C2: a process_loan call that returns success appends exactly one loan
\* record, the new one, at the end of the loans and changes nothing else
\* in the store; a call that returns a rejection leaves the items, users
\* and loans as they were
C2_FrameEffect ==
    [][ /\ ret' = "True" =>
            /\ DOMAIN data' = DOMAIN data
            /\ data'.items = data.items
            /\ data'.users = data.users
            /\ Len(data'.loans) = Len(data.loans) + 1
            /\ SubSeq(data'.loans, 1, Len(data.loans)) = data.loans
            /\ data'.loans[Len(data'.loans)].loan_id = Uuid4(uuid)
        /\ ret' = "False" => data' = data
      ]_vars

\* an accepted call on a store that already held an item, a user and a loan
C2_Witness ==
    /\ ret = "True"
    /\ Len(data.loans) > 1
    /\ Len(data.items) > 0
    /\ Len(data.users) > 0

----------------------------------------------------------------------------
(* C4 *)

\* C4: a process_loan call whose start and end both parse but with
\* start >= end is rejected whatever the store and the variant, and writes
\* nothing; every stored loan has start_time < end_time strictly
C4_BadOrderRejected ==
    /\ \A i \in LoanIndexes :
          ValidInterval(data.loans[i].start_time, data.loans[i].end_time)
    /\ \A loan_type \in LoanTypes, item_id \in ItemIds, user_id \in CallerUserIds,
          start_time \in TimeStrings, end_time \in TimeStrings,
          kwargs \in KwargsSet :
          ( /\ strptime(start_time).ok
            /\ strptime(end_time).ok
            /\ strptime(start_time).t >= strptime(end_time).t )
          => LET r == Outcome(loan_type, item_id, user_id, start_time, end_time, kwargs)
             IN  r.ret = "False" /\ r.data = data /\ r.file = file

\* a call was rejected for its order on a store that holds a loan
C4_Witness ==
    /\ ret = "False"
    /\ out = <<MsgAttempt, MsgBadOrder, MsgNotMade>>
    /\ Len(data.loans) > 0

----------------------------------------------------------------------------
(* C5 *)

\* C5: a process_loan call whose start or end does not parse is rejected,
\* whatever the store contains; the same input proposed again right after
\* is rejected the same way, and the loans are unchanged after each
C5_BadFormatRejected ==
    \A loan_type \in LoanTypes, item_id \in ItemIds, user_id \in CallerUserIds,
       start_time \in TimeStrings, end_time \in TimeStrings,
       kwargs \in KwargsSet :
       (~strptime(start_time).ok \/ ~strptime(end_time).ok)
       => LET r == Outcome(loan_type, item_id, user_id, start_time, end_time, kwargs)
              again == process_loan(loan_type, item_id, user_id, start_time,
                                    end_time, kwargs, "ok", r.data, r.file, r.uuid)
          IN  /\ r.ret = "False"
              /\ r.out = <<MsgAttempt, MsgBadFormat, MsgNotMade>>
              /\ r.data = data
              /\ r.file = file
              /\ again.ret = r.ret
              /\ again.out = r.out
              /\ again.data = data

\* a call was rejected for its format on a store that holds a loan
C5_Witness ==
    /\ ret = "False"
    /\ out = <<MsgAttempt, MsgBadFormat, MsgNotMade>>
    /\ Len(data.loans) > 0

----------------------------------------------------------------------------
(* C3 *)

\* C3: when two process_loan calls for the same item run concurrently, no
\* interleaving of their steps lets another write for the item come between
\* a call's conflict check and its own write, so that two overlapping loans
\* of the item are never both stored
C3_NoOverlapWhenConcurrent ==
    /\ \A t \in Threads :
          th[t].pc = "created" =>
              \A i \in LoanIndexes :
                  data.loans[i].item_id = th[t].new_loan.item_id
                      => Minutes(data.loans[i]) \cap Minutes(th[t].new_loan) = {}
    /\ \A i, j \in LoanIndexes :
          (i # j /\ data.loans[i].item_id = data.loans[j].item_id)
              => Minutes(data.loans[i]) \cap Minutes(data.loans[j]) = {}

----------------------------------------------------------------------------
(* C6 *)

\* the variant tags create_loan knows
KnownLoanTypes == {"standard", "staff"}

\* C6 as claimed: a process_loan call with a variant tag other than
\* "standard" or "staff" is rejected as unknown-variant and the store is
\* unchanged, for every interval and every store state
C6_UnknownVariantAlwaysReported ==
    \A loan_type \in LoanTypes \ KnownLoanTypes, item_id \in ItemIds,
       user_id \in CallerUserIds, start_time \in TimeStrings,
       end_time \in TimeStrings, kwargs \in KwargsSet :
       LET r == Outcome(loan_type, item_id, user_id, start_time, end_time, kwargs)
       IN  /\ r.ret = "False"
           /\ MsgFactory \in Lines(r.out)
           /\ r.data = data
           /\ r.file = file

\* C6 as amended: a process_loan call with a variant tag other than
\* "standard" or "staff" is rejected and leaves the store and the file
\* unchanged, for every interval and every store state; it is reported as
\* an unknown variant exactly when its interval is valid and conflicts with
\* no stored loan of the item, and as a calendar conflict otherwise
C6_UnknownVariantRejected ==
    \A loan_type \in LoanTypes \ KnownLoanTypes, item_id \in ItemIds,
       user_id \in CallerUserIds, start_time \in TimeStrings,
       end_time \in TimeStrings, kwargs \in KwargsSet :
       LET r == Outcome(loan_type, item_id, user_id, start_time, end_time, kwargs)
           clear == /\ ValidInterval(start_time, end_time)
                    /\ ~ConflictExists(item_id, start_time, end_time)
       IN  /\ r.ret = "False"
           /\ r.data = data
           /\ r.file = file
           /\ r.uuid = uuid
           /\ MsgFactory \in Lines(r.out) <=> clear
           /\ MsgNotMade \in Lines(r.out) <=> ~clear

\* a call was rejected for its variant on a store that holds a loan
C6_Witness ==
    /\ ret = "False"
    /\ out = <<MsgAttempt, MsgNoConflict, MsgFactory>>
    /\ Len(data.loans) > 0

----------------------------------------------------------------------------
(* C7 *)

\* the lines that name the cause of a rejection
CauseLines == {MsgBadFormat, MsgBadOrder, MsgConflict, MsgFactory}

----------------------------------------------------------------------------
(* C8 *)

\* C8: for a candidate that parses and has start < end, check_for_conflict
\* returns conflict if and only if some stored loan with the same item_id
\* and parseable times satisfies existing_start < new_end and
\* new_start < existing_end, also for an item that has no loans
C8_ConflictIffOverlap ==
    \A item_id \in ItemIds \cup {"item-9"},
       start_time \in ProbeTimeStrings, end_time \in ProbeTimeStrings :
       ValidInterval(start_time, end_time)
       => (check_for_conflict(item_id, start_time, end_time, data).ret
             <=> ConflictExists(item_id, start_time, end_time))

\* a conflict was found on a store where a loan of the item that does not
\* parse comes before one that does
C8_Witness ==
    /\ ret = "False"
    /\ out = <<MsgAttempt, MsgConflict, MsgNotMade>>
    /\ \E i, j \in LoanIndexes :
          /\ i < j
          /\ data.loans[i].item_id = data.loans[j].item_id
          /\ ~Parseable(data.loans[i])
          /\ Parseable(data.loans[j])

----------------------------------------------------------------------------
(* C9 *)

\* the intervals of the probed timestamps
ProbeIntervals ==
    { <<strptime(a).t, strptime(b).t>> :
        <<a, b>> \in { p \in ProbeTimeStrings \X ProbeTimeStrings :
                         ValidInterval(p[1], p[2]) } }

\* the overlap test is symmetric
OverlapSymmetric ==
    \A A, B \in ProbeIntervals :
        Overlap(A[1], A[2], B[1], B[2]) = Overlap(B[1], B[2], A[1], A[2])

\* the candidate touches the stored loan i of the item at one of its ends
Adjacent(i, item_id, start_time, end_time) ==
    /\ data.loans[i].item_id = item_id
    /\ Parseable(data.loans[i])
    /\ \/ strptime(start_time).t = strptime(data.loans[i].end_time).t
       \/ strptime(end_time).t = strptime(data.loans[i].start_time).t

\* the candidate shares no minute with any loan of the item but loan i
OverlapsNoOther(i, item_id, start_time, end_time) ==
    \A j \in LoanIndexes \ {i} :
        data.loans[j].item_id = item_id
        => Minutes(data.loans[j])
             \cap (strptime(start_time).t .. (strptime(end_time).t - 1)) = {}

\* a candidate adjacent to a stored loan of its item is no conflict with
\* that loan, and a call with one of the given variants is accepted when the
\* candidate overlaps no other loan of the item
AdjacentAccepted(types) ==
    \A loan_type \in types, item_id \in ItemIds, user_id \in CallerUserIds,
       start_time \in TimeStrings, end_time \in TimeStrings,
       kwargs \in KwargsSet, i \in LoanIndexes :
       (ValidInterval(start_time, end_time) /\ Adjacent(i, item_id, start_time, end_time))
       => /\ ~Overlap(strptime(data.loans[i].start_time).t,
                      strptime(data.loans[i].end_time).t,
                      strptime(start_time).t, strptime(end_time).t)
          /\ OverlapsNoOther(i, item_id, start_time, end_time)
             => Outcome(loan_type, item_id, user_id, start_time, end_time,
                        kwargs).ret = "True"

\* C9 as claimed: the overlap test is symmetric and half-open: a candidate
\* that starts where a loan of the item ends, or ends where one starts, is
\* no conflict with that loan and is accepted by process_loan when it
\* overlaps no other loan of the item
C9_AdjacentAcceptedAnyVariant == OverlapSymmetric /\ AdjacentAccepted(LoanTypes)

\* C9 as amended: the same, for a call whose variant tag is "standard" or
\* "staff"
C9_AdjacentAccepted == OverlapSymmetric /\ AdjacentAccepted(KnownLoanTypes)

\* an accepted loan starts where an earlier loan of its item ends
C9_Witness ==
    /\ ret = "True"
    /\ \E i \in LoanIndexes :
          /\ i < Len(data.loans)
          /\ data.loans[i].item_id = data.loans[Len(data.loans)].item_id
          /\ strptime(data.loans[i].end_time).t
               = strptime(data.loans[Len(data.loans)].start_time).t

----------------------------------------------------------------------------
(* C10 *)

\* C10: when process_loan returns success, and after every add_data that
\* completed, the persisted collections are the in-memory collections:
\* loading the file again gives every record with the same fields, the
\* variant tag among them
C10_Durable ==
    ret \in {"True", "None"} =>
        /\ file.kind = "json" \/ data = EmptyStore
        /\ LoadData(file) = data
        /\ \A i \in LoanIndexes :
              /\ LoadData(file).loans[i] = data.loans[i]
              /\ "loan_type" \in DOMAIN LoadData(file).loans[i]

\* a loan was accepted after a staff loan whose note json.dump escapes
C10_Witness ==
    /\ ret = "True"
    /\ Len(data.loans) = 2
    /\ data.loans[1].loan_type = "staff"
    /\ JsonEscape(data.loans[1].note) # data.loans[1].note
    /\ file.doc.loans[1].note # data.loans[1].note

----------------------------------------------------------------------------
(* C11 *)

\* C11: when the write of the file fails during the append step of
\* process_loan, neither the in-memory loans nor the file holds the new
\* loan: both are as they were before the call
C11_NoPartialMutation ==
    [][ (ret' = "OSError" /\ out' # <<>>) => (data' = data /\ file' = file) ]_vars

----------------------------------------------------------------------------
(* C12 *)

\* C12 as claimed: every loan in the store references existing records: its
\* item_id is the id of a record of the items and its user_id the id of a
\* record of the users, after any sequence of add_data and process_loan calls
C12_LoansReferenceRecords ==
    \A i \in LoanIndexes :
        /\ data.loans[i].item_id \in StoredItemIds
        /\ data.loans[i].user_id \in StoredUserIds

\* C12 as amended: process_loan does not look at the items and users: a call
\* does not crash whether or not its item_id and user_id are in the store,
\* and it is accepted exactly when its interval is valid, no stored loan of
\* the item overlaps it and its variant is known; an accepted call stores
\* the loan with the ids it was given, in the store or not
C12_UnknownReferenceNoCrash ==
    \A loan_type \in RefLoanTypes, item_id \in ItemIds, user_id \in RefUserIds,
       start_time \in RefTimeStrings, end_time \in RefTimeStrings :
       LET r == Outcome(loan_type, item_id, user_id, start_time, end_time, {})
       IN  /\ r.ret \in {"True", "False"}
           /\ r.ret = "True" <=>
                 /\ ValidInterval(start_time, end_time)
                 /\ ~ConflictExists(item_id, start_time, end_time)
                 /\ loan_type \in KnownLoanTypes
           /\ r.ret = "True" =>
                 /\ r.data.loans[Len(r.data.loans)].item_id = item_id
                 /\ r.data.loans[Len(r.data.loans)].user_id = user_id

\* a call naming a user that is not in the store was accepted on a store
\* that holds an item and a user (test 4 of the driver)
C12_Witness ==
    /\ ret = "True"
    /\ Len(data.items) > 0
    /\ Len(data.users) > 0
    /\ data.loans[Len(data.loans)].user_id \notin StoredUserIds

----------------------------------------------------------------------------
(* C13 *)

\* the store without its loan at position i
WithoutLoan(d, i) ==
    [d EXCEPT !.loans = SubSeq(@, 1, i - 1) \o SubSeq(@, i + 1, Len(@))]

\* C13: a stored loan of the item whose start_time or end_time does not
\* parse is skipped by the conflict check: it never makes the check fail,
\* and for every candidate what check_for_conflict returns and prints, and
\* whether process_loan accepts, are the same as on the store without that
\* record
C13_UnparseableSkipped ==
    \A i \in LoanIndexes :
        ~Parseable(data.loans[i]) =>
            \A start_time \in ProbeTimeStrings, end_time \in ProbeTimeStrings :
                LET item_id == data.loans[i].item_id
                    without == WithoutLoan(data, i)
                IN  /\ check_for_conflict(item_id, start_time, end_time, data).exc = "None"
                    /\ check_for_conflict(item_id, start_time, end_time, data)
                         = check_for_conflict(item_id, start_time, end_time, without)
                    /\ Outcome("standard", item_id, "user-a", start_time, end_time, {}).ret
                         = process_loan("standard", item_id, "user-a", start_time,
                                        end_time, {}, "ok", without, file, uuid).ret

----------------------------------------------------------------------------
(* C14 *)

\* the stored loans whose item_id is the given one, in their order
LoansOf(d, item_id) == SelectSeq(d.loans, LAMBDA loan : loan.item_id = item_id)

\* the store with the loans of the given item only
OnlyItem(d, item_id) == [d EXCEPT !.loans = LoansOf(d, item_id)]

\* C14: the decision of process_loan for an item depends only on the stored
\* loans of that item: it is the decision on the store without the loans of
\* the other items; and the call leaves the loans of every other item as
\* they were
C14_ConflictScopeIsItem ==
    \A loan_type \in LoanTypes, item_id \in ItemIds, user_id \in CallerUserIds,
       start_time \in TimeStrings, end_time \in TimeStrings,
       kwargs \in KwargsSet :
       LET r == Outcome(loan_type, item_id, user_id, start_time, end_time, kwargs)
           alone == process_loan(loan_type, item_id, user_id, start_time, end_time,
                                 kwargs, "ok", OnlyItem(data, item_id), file, uuid)
       IN  /\ r.ret = alone.ret
           /\ r.out = alone.out
           /\ \A other \in ItemIds \ {item_id} :
                 LoansOf(r.data, other) = LoansOf(data, other)

\* a call was accepted for an item although a stored loan of another item
\* covers minutes of its interval
C14_Witness ==
    /\ ret = "True"
    /\ \E i \in LoanIndexes :
          /\ data.loans[i].item_id # data.loans[Len(data.loans)].item_id
          /\ Minutes(data.loans[i]) \cap Minutes(data.loans[Len(data.loans)]) # {}

----------------------------------------------------------------------------
(* C15 *)

\* the sequence r holds exactly the loans of d with the given item_id, in
\* the order of their insertion
IsLoansOfItemInOrder(r, d, item_id) ==
    LET idx == { i \in 1..Len(d.loans) : d.loans[i].item_id = item_id }
    IN  /\ Len(r) = Cardinality(idx)
        /\ \E f \in [1..Len(r) -> idx] :
              /\ \A k, l \in 1..Len(r) : k < l => f[k] < f[l]
              /\ \A k \in 1..Len(r) : r[k] = d.loans[f[k]]

\* C15: the loans are append-only: over every process_loan call the loans
\* before are a prefix of the loans after (none mutated, reordered or
\* removed); and get_loans_for_item returns exactly the loans with the given
\* item_id in insertion order, the empty sequence when there are none or
\* the item is unknown
C15_AppendOnly ==
    [][ /\ Len(data.loans) <= Len(data'.loans)
        /\ SubSeq(data'.loans, 1, Len(data.loans)) = data.loans
        /\ \A item_id \in ItemIds \cup {"item-9"} :
              /\ IsLoansOfItemInOrder(get_loans_for_item(data', item_id), data', item_id)
              /\ (\A i \in 1..Len(data'.loans) : data'.loans[i].item_id # item_id)
                     => get_loans_for_item(data', item_id) = <<>>
      ]_vars

\* a call was accepted on a store that then holds loans of two items
C15_Witness ==
    /\ ret = "True"
    /\ \E item_id \in ItemIds :
          /\ Len(get_loans_for_item(data, item_id)) > 0
          /\ Len(get_loans_for_item(data, item_id)) < Len(data.loans)

----------------------------------------------------------------------------
(* C16 *)

\* the fields every loan record has
BaseFields == {"loan_id", "item_id", "user_id", "start_time", "end_time", "loan_type"}

\* C16: the record an accepted process_loan stores carries the requested
\* item_id, user_id, start and end as given and the requested variant as
\* its tag; a "standard" loan has the base fields only, a "staff" loan also
\* a note: the supplied one, or the placeholder when none is supplied
C16_StoredRecord ==
    \A loan_type \in LoanTypes, item_id \in ItemIds, user_id \in CallerUserIds,
       start_time \in TimeStrings, end_time \in TimeStrings,
       kwargs \in KwargsSet :
       LET r == Outcome(loan_type, item_id, user_id, start_time, end_time, kwargs)
           rec == r.data.loans[Len(r.data.loans)]
       IN  r.ret = "True" =>
             /\ Len(r.data.loans) = Len(data.loans) + 1
             /\ rec.item_id = item_id
             /\ rec.user_id = user_id
             /\ rec.start_time = start_time
             /\ rec.end_time = end_time
             /\ rec.loan_type = loan_type
             /\ loan_type = "standard" => DOMAIN rec = BaseFields
             /\ loan_type = "staff" =>
                   /\ DOMAIN rec = BaseFields \cup {"note"}
                   /\ \A p \in kwargs : p[1] = "note" => rec.note = p[2]
                   /\ kwargs = {} => rec.note = "Není uvedena"

\* a staff loan was accepted with the note its caller supplied, after a
\* staff loan without one
C16_Witness ==
    /\ ret = "True"
    /\ Len(data.loans) = 2
    /\ data.loans[1].loan_type = "staff"
    /\ data.loans[1].note = DefaultNote
    /\ data.loans[2].loan_type = "staff"
    /\ data.loans[2].note # DefaultNote

----------------------------------------------------------------------------
(* C17 *)

\* the three collections of a store
Collections == {"items", "users", "loans"}

\* C17: a start is no error whatever the file, and right after it the
\* store holds the collections of the file when the file is there and
\* parses, a collection the file lacks being empty, and three empty
\* collections when the file is absent or corrupt; and after a load of a
\* corrupt file, the first append puts the new collections in place of it
C17_LoadOnStart ==
    /\ out = <<>> =>
          /\ ret = "None"
          /\ Collections \subseteq DOMAIN data
          /\ file.kind \in {"absent", "corrupt", "not_utf8", "array"}
                => data = EmptyStore
          /\ file.kind = "json" =>
                \A key \in Collections :
                    data[key] = IF key \in DOMAIN file.doc
                                THEN JsonLoad(file.doc)[key]
                                ELSE <<>>
    /\ file.kind = "corrupt" =>
          \A loan_type \in KnownLoanTypes, start_time \in LoadTimeStrings,
             end_time \in LoadTimeStrings, kwargs \in KwargsSet :
             LET r == Outcome(loan_type, "item-1", "user-a", start_time, end_time, kwargs)
             IN  ValidInterval(start_time, end_time) =>
                   /\ r.ret = "True"
                   /\ r.file.kind = "json"
                   /\ DOMAIN r.file.doc = Collections
                   /\ LoadData(r.file) = r.data
                   /\ Len(r.data.loans) = 1

----------------------------------------------------------------------------
(* C18 *)

\* the call is rejected for a conflict with a stored loan
RejectedForConflict(r) == r.ret = "False" /\ MsgConflict \in Lines(r.out)

\* C18: once a valid candidate for an item was rejected for a conflict, or
\* was itself accepted, a later process_loan call with the same item and
\* interval is rejected for a conflict, whatever user and variant it names;
\* and no two stored loans have the same item and interval
C18_ConflictStable ==
    [][ /\ \A item_id \in ItemIds, start_time \in RefTimeStrings,
              end_time \in RefTimeStrings :
              LET before == process_loan("standard", item_id, "user-a", start_time,
                                         end_time, {}, "ok", data, file, uuid)
                  accepted ==
                      /\ ret' = "True"
                      /\ Len(data'.loans) = Len(data.loans) + 1
                      /\ data'.loans[Len(data'.loans)].item_id = item_id
                      /\ data'.loans[Len(data'.loans)].start_time = start_time
                      /\ data'.loans[Len(data'.loans)].end_time = end_time
              IN  (ValidInterval(start_time, end_time)
                     /\ (RejectedForConflict(before) \/ accepted))
                  => \A loan_type \in LoanTypes, user_id \in RefUserIds :
                        RejectedForConflict(
                            process_loan(loan_type, item_id, user_id, start_time,
                                         end_time, {}, "ok", data', file', uuid'))
        /\ \A i, j \in 1..Len(data'.loans) :
              ( /\ i # j
                /\ data'.loans[i].item_id = data'.loans[j].item_id
                /\ data'.loans[i].start_time = data'.loans[j].start_time )
              => data'.loans[i].end_time # data'.loans[j].end_time
      ]_vars

\* a call was rejected for a conflict with a loan that an earlier call
\* had stored
C18_Witness ==
    /\ RejectedForConflict([ret |-> ret, out |-> out])
    /\ Len(data.loans) > 0
    /\ uuid = Len(data.loans)

----------------------------------------------------------------------------
(* C19 *)

\* the stored loans of a store as a set, without their generated loan_id
LoanSet(d) ==
    { [f \in DOMAIN d.loans[i] \ {"loan_id"} |-> d.loans[i][f]] :
        i \in 1..Len(d.loans) }

\* the proposals: a known variant and a valid interval
Proposals ==
    { p \in KnownLoanTypes \X RefTimeStrings \X RefTimeStrings :
        ValidInterval(p[2], p[3]) }

\* process_loan for the proposal p on the item, on the state a call left
Propose(p, item_id, s) ==
    process_loan(p[1], item_id, "user-a", p[2], p[3], {}, "ok", s.data, s.file, s.uuid)

\* C19: for two valid proposals P and Q on one item, issued back to back
\* from a store in which neither conflicts: when P and Q do not overlap,
\* both are accepted in either order and the stored loans are the same set;
\* when they overlap, exactly the one issued first is accepted
C19_FirstComeWins ==
    \A item_id \in ItemIds, P \in Proposals, Q \in Proposals :
       ( /\ ~ConflictExists(item_id, P[2], P[3])
         /\ ~ConflictExists(item_id, Q[2], Q[3]) )
       => LET here == [data |-> data, file |-> file, uuid |-> uuid]
              p1 == Propose(P, item_id, here)
              q2 == Propose(Q, item_id, p1)
              q1 == Propose(Q, item_id, here)
              p2 == Propose(P, item_id, q1)
              disjoint ==
                  \/ strptime(P[3]).t <= strptime(Q[2]).t
                  \/ strptime(Q[3]).t <= strptime(P[2]).t
          IN  /\ p1.ret = "True"
              /\ q1.ret = "True"
              /\ disjoint =>
                    /\ q2.ret = "True"
                    /\ p2.ret = "True"
                    /\ LoanSet(q2.data) = LoanSet(p2.data)
                    /\ Len(q2.data.loans) = Len(data.loans) + 2
              /\ ~disjoint =>
                    /\ q2.ret = "False"
                    /\ p2.ret = "False"
                    /\ q2.data = p1.data
                    /\ p2.data = q1.data

\* two proposals on one item that do not overlap were issued back to back
\* on an empty store and both were accepted
C19_Witness ==
    /\ ret = "True"
    /\ Len(data.loans) = 2
    /\ uuid = 2
    /\ data.loans[1].item_id = data.loans[2].item_id
    /\ Minutes(data.loans[1]) \cap Minutes(data.loans[2]) = {}
    /\ Minutes(data.loans[1]) # {}

====
